---- MODULE Spec2Model ----
(***************************************************************************)
(* A model of the qstrader session loop (TradingSession._run_session),     *)
(* the MonthlyLiquidateRebalanceStrategy and the                           *)
(* LiquidateRebalancePositionSizer.                                        *)
(*                                                                         *)
(* Money is held in the integer domain of PriceParser (display value times *)
(* PRICE_MULTIPLIER).  The sizer's float arithmetic is modelled over exact *)
(* rationals: weight = n / WeightDen, display(x) = x / PRICE_MULTIPLIER;   *)
(* IEEE-754 rounding is not modelled.                                      *)
(***************************************************************************)
EXTENDS Integers, Sequences, FiniteSets, TLC

VARIABLES
    status,            \* "running" | "done" (loop returned) | "aborted" (exception)
    events_queue,      \* TradingSession.events_queue, a FIFO of events
    cur_time,          \* TradingSession.cur_time
    sentiment_handler, \* TRUE iff a sentiment handler is configured
    sentiment_date,    \* stream_date of the last sentiment_handler.stream_next
    tickers_invested,  \* MonthlyLiquidateRebalanceStrategy.tickers_invested
    ticker_weights,    \* LiquidateRebalancePositionSizer.ticker_weights (in 1/WeightDen)
    positions,         \* Portfolio.positions: ticker -> signed quantity
    cur_cash,          \* Portfolio.cur_cash
    equity,            \* Portfolio.equity
    prices,            \* price_handler.tickers[t]["adj_close"]
    feed,              \* price handler: [type, day, left, batch]
    commission,        \* what the execution handler charges per fill
    continue_backtest, \* price_handler.continue_backtest
    statistics,        \* last record handed to statistics.update
    last,              \* the last loop iteration: what was popped, what was called
    sized,             \* the order last returned by size_order (sizer harness)
    session_type,      \* TradingSession.session_type
    end_session_time,  \* TradingSession.end_session_time
    now                \* datetime.now(), in ticks of the wall clock

vars == <<status, events_queue, cur_time, sentiment_handler, sentiment_date,
          tickers_invested, ticker_weights, positions, cur_cash, equity, prices,
          feed, commission, continue_backtest, statistics, last, sized,
          session_type, end_session_time, now>>

session_vars == <<session_type, end_session_time, now>>

-----------------------------------------------------------------------------
(* Bounds of the model *)

\* number of market events the price feed delivers before it is exhausted
MaxBars == 4
\* largest absolute position quantity drawn for the sizer harness
MaxQty == 3

-----------------------------------------------------------------------------
(* Program constants *)

\* PriceParser.PRICE_MULTIPLIER: integer units per display unit
PRICE_MULTIPLIER == 100
\* run(): initial_equity = 500000.0
initial_equity == 500000
\* denominator of the ticker weights: 0.6 is 6 / WeightDen
WeightDen == 10
\* commission the simulated execution may charge on a fill (integer domain)
Commission == 130

Tickers == {"SPY", "AGG"}
\* the weight table with the two weights exchanged
example_weights_swapped == [t \in {"SPY", "AGG"} |-> IF t = "SPY" THEN 4 ELSE 6]
\* run(): ticker_weights = {"SPY": 0.6, "AGG": 0.4}
example_weights == [t \in Tickers |-> IF t = "SPY" THEN 6 ELSE 4]

None == "None"

\* end_session_time = None: no point of the wall clock, which runs from 1
NoTime == 0
NoDate == <<0, 0, 0>>

\* the trading days the feed walks through, in chronological order
Calendar == << <<2007, 2, 28>>, <<2008, 2, 28>>, <<2008, 2, 29>>, <<2008, 3, 31>> >>
\* display prices the feed may report
Prices == {50, 100}

-----------------------------------------------------------------------------
(* PriceParser *)

parse(x) == x * PRICE_MULTIPLIER

-----------------------------------------------------------------------------
(* Event model *)

Event(type, ticker, time, action, quantity, price, fee, batch) ==
    [type |-> type, ticker |-> ticker, time |-> time, action |-> action,
     quantity |-> quantity, price |-> price, commission |-> fee,
     batch |-> batch]

MarketEvent(type, ticker, time, price, batch) ==
    Event(type, ticker, time, None, 0, price, 0, batch)
SentimentEvent(ticker, time, batch) ==
    Event("SENTIMENT", ticker, time, None, 0, 0, 0, batch)
SignalEvent(ticker, action, batch) ==
    Event("SIGNAL", ticker, NoDate, action, 0, 0, 0, batch)
OrderEvent(ticker, action, quantity, batch) ==
    Event("ORDER", ticker, NoDate, action, quantity, 0, 0, batch)
FillEvent(ticker, action, quantity, price, fee, batch) ==
    Event("FILL", ticker, NoDate, action, quantity, price, fee, batch)
OtherEvent(batch) ==
    Event("OTHER", None, NoDate, None, 0, 0, 0, batch)

\* a LIFO put: the event goes to the head of the queue
Put_front(q, e) == <<e>> \o q

\* queue.Queue: put appends at the tail, get(False) takes the head
Put(q, e) == Append(q, e)
Get(q) == Head(q)
Rest(q) == Tail(q)

-----------------------------------------------------------------------------
(* MonthlyLiquidateRebalanceStrategy *)

isleap(y) == y % 4 = 0 /\ (y % 100 # 0 \/ y % 400 = 0)
mdays == <<31, 28, 31, 30, 31, 30, 31, 31, 30, 31, 30, 31>>
\* a month length that knows no leap year
monthrange_noleap(y, m) == mdays[m]

\* calendar.monthrange(year, month)[1]
monthrange(y, m) == mdays[m] + (IF m = 2 /\ isleap(y) THEN 1 ELSE 0)

end_of_month(t) == t[3] = monthrange(t[1], t[2])

create_invested_list == [t \in Tickers |-> FALSE]

\* a strategy whose flag follows the holdings: cleared when it liquidates
calculate_signals_tracking(q, inv, e) ==
    IF e.type \in {"BAR", "TICK"} /\ end_of_month(e.time)
    THEN LET q1 == IF inv[e.ticker]
                   THEN Put(q, SignalEvent(e.ticker, "EXIT", e.batch))
                   ELSE q
             q2 == Put(q1, SignalEvent(e.ticker, "BOT", e.batch))
         IN  [queue |-> q2, invested |-> [inv EXCEPT ![e.ticker] = ~inv[e.ticker]]]
    ELSE [queue |-> q, invested |-> inv]

\* a strategy that does not look at the event's type
calculate_signals_any_type(q, inv, e) ==
    IF end_of_month(e.time)
    THEN LET q1 == IF inv[e.ticker]
                   THEN Put(q, SignalEvent(e.ticker, "EXIT", e.batch))
                   ELSE q
             q2 == Put(q1, SignalEvent(e.ticker, "BOT", e.batch))
         IN  [queue |-> q2, invested |-> [inv EXCEPT ![e.ticker] = TRUE]]
    ELSE [queue |-> q, invested |-> inv]

\* calculate_signals(event): the queue and the invested map it leaves behind
calculate_signals(q, inv, e) ==
    IF e.type \in {"BAR", "TICK"} /\ end_of_month(e.time)
    THEN LET q1 == IF inv[e.ticker]
                   THEN Put(q, SignalEvent(e.ticker, "EXIT", e.batch))
                   ELSE q
             q2 == Put(q1, SignalEvent(e.ticker, "BOT", e.batch))
         IN  [queue |-> q2, invested |-> [inv EXCEPT ![e.ticker] = TRUE]]
    ELSE [queue |-> q, invested |-> inv]

-----------------------------------------------------------------------------
(* LiquidateRebalancePositionSizer *)

\* a sizer that takes a missing weight for 0 and a missing price for the
\* smallest price, instead of failing
size_order_default(pos, eq, px, weights, o) ==
    IF o.action = "EXIT"
    THEN IF o.ticker \notin DOMAIN pos
         THEN [err |-> TRUE, order |-> o]
         ELSE LET cur_quantity == pos[o.ticker]
              IN  IF cur_quantity > 0
                  THEN [err |-> FALSE,
                        order |-> [o EXCEPT !.action = "SLD", !.quantity = cur_quantity]]
                  ELSE [err |-> FALSE,
                        order |-> [o EXCEPT !.action = "BOT", !.quantity = cur_quantity]]
    ELSE LET weight == IF o.ticker \in DOMAIN weights THEN weights[o.ticker] ELSE 0
             price == IF o.ticker \in DOMAIN px THEN px[o.ticker] ELSE 1
             weighted_quantity == (weight * eq) \div (WeightDen * price)
         IN  [err |-> FALSE, order |-> [o EXCEPT !.quantity = weighted_quantity]]

\* a sizer that works on the equity the session started with
size_order_initial_equity(pos, eq, px, weights, o) ==
    IF o.action = "EXIT"
    THEN IF o.ticker \notin DOMAIN pos
         THEN [err |-> TRUE, order |-> o]
         ELSE LET cur_quantity == pos[o.ticker]
              IN  IF cur_quantity > 0
                  THEN [err |-> FALSE,
                        order |-> [o EXCEPT !.action = "SLD", !.quantity = cur_quantity]]
                  ELSE [err |-> FALSE,
                        order |-> [o EXCEPT !.action = "BOT", !.quantity = cur_quantity]]
    ELSE IF o.ticker \notin DOMAIN weights \/ o.ticker \notin DOMAIN px
         THEN [err |-> TRUE, order |-> o]
         ELSE LET weight == weights[o.ticker]
                  price == px[o.ticker]
                  weighted_quantity ==
                      (weight * parse(initial_equity)) \div (WeightDen * price)
              IN  [err |-> FALSE, order |-> [o EXCEPT !.quantity = weighted_quantity]]

\* a sizer that rounds the share count up instead of down
size_order_ceil(pos, eq, px, weights, o) ==
    IF o.action = "EXIT"
    THEN IF o.ticker \notin DOMAIN pos
         THEN [err |-> TRUE, order |-> o]
         ELSE LET cur_quantity == pos[o.ticker]
              IN  IF cur_quantity > 0
                  THEN [err |-> FALSE,
                        order |-> [o EXCEPT !.action = "SLD", !.quantity = cur_quantity]]
                  ELSE [err |-> FALSE,
                        order |-> [o EXCEPT !.action = "BOT", !.quantity = cur_quantity]]
    ELSE IF o.ticker \notin DOMAIN weights \/ o.ticker \notin DOMAIN px
         THEN [err |-> TRUE, order |-> o]
         ELSE LET weight == weights[o.ticker]
                  price == px[o.ticker]
                  weighted_quantity == 0 - ((0 - weight * eq) \div (WeightDen * price))
              IN  [err |-> FALSE, order |-> [o EXCEPT !.quantity = weighted_quantity]]

\* size_order(portfolio, initial_order): the order as rewritten, or a KeyError
size_order(pos, eq, px, weights, o) ==
    IF o.action = "EXIT"
    THEN IF o.ticker \notin DOMAIN pos
         THEN [err |-> TRUE, order |-> o]
         ELSE LET cur_quantity == pos[o.ticker]
              IN  IF cur_quantity > 0
                  THEN [err |-> FALSE,
                        order |-> [o EXCEPT !.action = "SLD", !.quantity = cur_quantity]]
                  ELSE [err |-> FALSE,
                        order |-> [o EXCEPT !.action = "BOT", !.quantity = cur_quantity]]
    ELSE IF o.ticker \notin DOMAIN weights \/ o.ticker \notin DOMAIN px
         THEN [err |-> TRUE, order |-> o]
         ELSE LET weight == weights[o.ticker]
                  price == px[o.ticker]
                  \* floor((weight/WeightDen) * (eq/M) / (price/M))
                  weighted_quantity == (weight * eq) \div (WeightDen * price)
              IN  [err |-> FALSE, order |-> [o EXCEPT !.quantity = weighted_quantity]]

-----------------------------------------------------------------------------
(* Portfolio and PortfolioHandler *)

market_value(pos, px) ==
    LET RECURSIVE sum(_)
        sum(S) == IF S = {} THEN 0
                  ELSE LET t == CHOOSE x \in S : TRUE
                       IN  pos[t] * px[t] + sum(S \ {t})
    IN  sum(DOMAIN pos)

\* Position.transact_shares: BOT adds the quantity, SLD takes it away
transact_shares(quantity, action, amount) ==
    IF action = "BOT" THEN quantity + amount ELSE quantity - amount

\* Portfolio.transact_position: the position is created on the first fill
transact_position(pos, f) ==
    IF f.ticker \in DOMAIN pos
    THEN [pos EXCEPT ![f.ticker] = transact_shares(pos[f.ticker], f.action, f.quantity)]
    ELSE [t \in DOMAIN pos \cup {f.ticker} |->
            IF t = f.ticker THEN transact_shares(0, f.action, f.quantity) ELSE pos[t]]

transact_cash(cash, f) ==
    IF f.action = "BOT"
    THEN cash - f.quantity * f.price - f.commission
    ELSE cash + f.quantity * f.price - f.commission


\* Portfolio._update_portfolio: equity = cash + mark-to-market position value
update_portfolio(cash, pos, px) == cash + market_value(pos, px)

-----------------------------------------------------------------------------
(* TradingSession: the steps of the BAR/TICK branch of _run_session.       *)
(* Each step maps the session state s = [queue, cur_time, sentiment_date,  *)
(* invested, equity, statistics, calls] to the state after it; calls is    *)
(* the list of collaborator calls made in the current iteration.           *)

set_cur_time(s, e) ==
    [s EXCEPT !.cur_time = e.time, !.calls = Append(@, "cur_time")]

\* sentiment_handler.stream_next(stream_date=self.cur_time); it may enqueue
\* n SENTIMENT events stamped with the date it was given
sentiment_stream_next(s, e, n) ==
    IF sentiment_handler
    THEN [s EXCEPT !.sentiment_date = s.cur_time,
                   !.queue = IF n = 0 THEN @
                             ELSE Put(@, SentimentEvent(e.ticker, s.cur_time, e.batch)),
                   !.calls = Append(@, "sentiment_handler.stream_next")]
    ELSE s

strategy_calculate_signals(s, e) ==
    LET r == calculate_signals(s.queue, s.invested, e)
    IN  [s EXCEPT !.queue = r.queue, !.invested = r.invested,
                  !.calls = Append(@, "strategy.calculate_signals")]

update_portfolio_value(s) ==
    [s EXCEPT !.equity = update_portfolio(cur_cash, positions, prices),
              !.calls = Append(@, "portfolio_handler.update_portfolio_value")]

statistics_update(s, e) ==
    [s EXCEPT !.statistics = [time |-> e.time, equity |-> s.equity],
              !.calls = Append(@, "statistics.update")]

\* the branch with the sentiment feed advanced before the time is set and
\* the valuation recorded before it is recomputed
market_steps_reordered(s, e, n) ==
    update_portfolio_value(
      statistics_update(
        strategy_calculate_signals(
          set_cur_time(
            sentiment_stream_next(s, e, n), e), e), e))

\* lines 158-166, in program order
market_steps(s, e, n) ==
    statistics_update(
      update_portfolio_value(
        strategy_calculate_signals(
          sentiment_stream_next(
            set_cur_time(s, e), e, n), e)), e)

-----------------------------------------------------------------------------
(* TradingSession._run_session *)

NoEvent == Event("NONE", None, NoDate, None, 0, 0, 0, 0)

\* the session is a backtest: the condition is price_handler.continue_backtest
continue_loop_condition_always == TRUE

continue_loop_condition ==
    IF session_type = "backtest"
    THEN continue_backtest
    ELSE now < end_session_time

\* a loop that advances the feed whatever the queue holds
QueueEmpty_always == TRUE

\* get(False) that reports an empty queue while one event waits
QueueEmpty_last_one == Len(events_queue) <= 1

\* events_queue.get(False) raises queue.Empty
QueueEmpty == Len(events_queue) = 0

\* the chain with an else branch that hands the event to the strategy
HandlerFor_lenient(type) ==
    IF type = "TICK" \/ type = "BAR" THEN "market"
    ELSE IF type = "SIGNAL" THEN "on_signal"
    ELSE IF type = "ORDER" THEN "execute_order"
    ELSE IF type = "FILL" THEN "on_fill"
    ELSE "sentiment"

\* the chain with SENTIMENT handled by the TICK/BAR branch
HandlerFor_sentiment_as_market(type) ==
    IF type = "TICK" \/ type = "BAR" \/ type = "SENTIMENT" THEN "market"
    ELSE IF type = "SIGNAL" THEN "on_signal"
    ELSE IF type = "ORDER" THEN "execute_order"
    ELSE IF type = "FILL" THEN "on_fill"
    ELSE "unsupported"

\* the chain with the ORDER and FILL branches exchanged
HandlerFor_swapped(type) ==
    IF type = "TICK" \/ type = "BAR" THEN "market"
    ELSE IF type = "SENTIMENT" THEN "sentiment"
    ELSE IF type = "SIGNAL" THEN "on_signal"
    ELSE IF type = "ORDER" THEN "on_fill"
    ELSE IF type = "FILL" THEN "execute_order"
    ELSE "unsupported"

\* the if/elif chain on event.type
HandlerFor(type) ==
    IF type = "TICK" \/ type = "BAR" THEN "market"
    ELSE IF type = "SENTIMENT" THEN "sentiment"
    ELSE IF type = "SIGNAL" THEN "on_signal"
    ELSE IF type = "ORDER" THEN "execute_order"
    ELSE IF type = "FILL" THEN "on_fill"
    ELSE "unsupported"

Iterating == status = "running" /\ continue_loop_condition

\* an event was popped (no collaborator enqueues None) and its branch is h
Popped(h) == Iterating /\ ~QueueEmpty /\ HandlerFor(Get(events_queue).type) = h

Init ==
    /\ status = "running"
    /\ events_queue = <<>>
    /\ cur_time = NoDate
    /\ sentiment_handler \in BOOLEAN
    /\ sentiment_date = NoDate
    /\ tickers_invested = create_invested_list
    /\ ticker_weights = example_weights
    /\ positions = [t \in {} |-> 0]
    /\ cur_cash = parse(initial_equity)
    /\ equity = parse(initial_equity)
    /\ prices = [t \in {} |-> 0]
    /\ feed \in [type : {"BAR", "TICK"}, day : {1}, left : {MaxBars}, batch : {0}]
    /\ commission \in {0, Commission}
    /\ continue_backtest = TRUE
    /\ statistics = [time |-> NoDate, equity |-> 0]
    /\ last = [kind |-> "init", event |-> NoEvent, calls |-> <<>>]
    /\ sized = [err |-> FALSE, order |-> NoEvent]
    /\ session_type = "backtest"
    /\ end_session_time = NoTime
    /\ now = 0

\* the while condition is false: _run_session returns
LoopExit ==
    /\ UNCHANGED session_vars
    /\ status = "running"
    /\ ~continue_loop_condition
    /\ status' = "done"
    /\ last' = [kind |-> "exit", event |-> NoEvent, calls |-> <<>>]
    /\ UNCHANGED <<events_queue, cur_time, sentiment_handler, sentiment_date,
                   tickers_invested, ticker_weights, positions, cur_cash, equity,
                   prices, feed, commission, continue_backtest, statistics, sized>>

\* price_handler.stream_next() on a feed with data left: one market event of
\* the next row is enqueued and the ticker's latest price is stored
StreamBar ==
    /\ UNCHANGED session_vars
    /\ Iterating /\ QueueEmpty
    /\ feed.left > 0
    /\ \E t \in Tickers, p \in Prices, d \in {feed.day, feed.day + 1} :
         /\ d <= Len(Calendar)
         /\ feed' = [feed EXCEPT !.day = d, !.left = @ - 1, !.batch = @ + 1]
         /\ events_queue' =
              Put(events_queue,
                  MarketEvent(feed.type, t, Calendar[d], parse(p), feed.batch + 1))
         /\ prices' = [x \in DOMAIN prices \cup {t} |->
                         IF x = t THEN parse(p) ELSE prices[x]]
    /\ last' = [kind |-> "feed", event |-> NoEvent,
                calls |-> <<"price_handler.stream_next">>]
    /\ UNCHANGED <<status, cur_time, sentiment_handler, sentiment_date,
                   tickers_invested, ticker_weights, positions, cur_cash, equity, commission,
                   continue_backtest, statistics, sized>>

\* a price handler that enqueues an event of a kind the loop does not know,
\* alone or followed by a market event that repeats a ticker's last price
StreamOther ==
    /\ UNCHANGED session_vars
    /\ Iterating /\ QueueEmpty
    /\ feed.left > 0
    /\ feed' = [feed EXCEPT !.left = @ - 1, !.batch = @ + 1]
    /\ \/ events_queue' = Put(events_queue, OtherEvent(feed.batch + 1))
       \/ \E t \in DOMAIN prices :
            events_queue' =
              Put(Put(events_queue, OtherEvent(feed.batch + 1)),
                  MarketEvent(feed.type, t, Calendar[feed.day], prices[t],
                              feed.batch + 1))
    /\ last' = [kind |-> "feed", event |-> NoEvent,
                calls |-> <<"price_handler.stream_next">>]
    /\ UNCHANGED <<status, cur_time, sentiment_handler, sentiment_date,
                   tickers_invested, ticker_weights, positions, cur_cash, equity,
                   prices, commission, continue_backtest, statistics, sized>>

\* price_handler.stream_next() on an exhausted feed
StreamEnd ==
    /\ UNCHANGED session_vars
    /\ Iterating /\ QueueEmpty
    /\ feed.left = 0
    /\ continue_backtest' = FALSE
    /\ last' = [kind |-> "feed", event |-> NoEvent,
                calls |-> <<"price_handler.stream_next">>]
    /\ UNCHANGED <<status, events_queue, cur_time, sentiment_handler, sentiment_date,
                   tickers_invested, ticker_weights, positions, cur_cash, equity,
                   prices, feed, commission, statistics, sized>>

\* event.type == TICK or BAR
DispatchMarket ==
    /\ UNCHANGED session_vars
    /\ Popped("market")
    /\ \E n \in 0..1 :
         LET e  == Get(events_queue)
             s0 == [queue |-> Rest(events_queue), cur_time |-> cur_time,
                    sentiment_date |-> sentiment_date, invested |-> tickers_invested,
                    equity |-> equity, statistics |-> statistics, calls |-> <<>>]
             s  == market_steps(s0, e, n)
         IN  /\ (n = 1 => sentiment_handler)
             /\ events_queue' = s.queue
             /\ cur_time' = s.cur_time
             /\ sentiment_date' = s.sentiment_date
             /\ tickers_invested' = s.invested
             /\ equity' = s.equity
             /\ statistics' = s.statistics
             /\ last' = [kind |-> "dispatch", event |-> e, calls |-> s.calls]
    /\ UNCHANGED <<status, sentiment_handler, ticker_weights, positions, cur_cash,
                   prices, feed, commission, continue_backtest, sized>>

\* event.type == SENTIMENT
DispatchSentiment ==
    /\ UNCHANGED session_vars
    /\ Popped("sentiment")
    /\ LET e == Get(events_queue)
           r == calculate_signals(Rest(events_queue), tickers_invested, e)
       IN  /\ events_queue' = r.queue
           /\ tickers_invested' = r.invested
           /\ last' = [kind |-> "dispatch", event |-> e,
                       calls |-> <<"strategy.calculate_signals">>]
    /\ UNCHANGED <<status, cur_time, sentiment_handler, sentiment_date,
                   ticker_weights, positions, cur_cash, equity, prices, feed, commission,
                   continue_backtest, statistics, sized>>

\* event.type == SIGNAL: portfolio_handler.on_signal builds the order, has it
\* sized and enqueues it; a KeyError of the sizer leaves the loop
DispatchSignal ==
    /\ UNCHANGED session_vars
    /\ Popped("on_signal")
    /\ LET e == Get(events_queue)
           r == size_order(positions, equity, prices, ticker_weights,
                           OrderEvent(e.ticker, e.action, 0, e.batch))
       IN  /\ events_queue' = IF r.err THEN Rest(events_queue)
                              ELSE Put(Rest(events_queue), r.order)
           /\ status' = IF r.err THEN "aborted" ELSE status
           /\ last' = [kind |-> "dispatch", event |-> e,
                       calls |-> <<"portfolio_handler.on_signal">>]
    /\ UNCHANGED <<cur_time, sentiment_handler, sentiment_date, tickers_invested,
                   ticker_weights, positions, cur_cash, equity, prices, feed, commission,
                   continue_backtest, statistics, sized>>

\* event.type == ORDER: execution enqueues zero or one FILL, at the current
\* price, with the handler's commission
DispatchOrder ==
    /\ UNCHANGED session_vars
    /\ Popped("execute_order")
    /\ LET e == Get(events_queue)
       IN  /\ \/ events_queue' = Rest(events_queue)
              \/ events_queue' =
                   Put(Rest(events_queue),
                       FillEvent(e.ticker, e.action, e.quantity,
                                 prices[e.ticker], commission, e.batch))
           /\ last' = [kind |-> "dispatch", event |-> e,
                       calls |-> <<"execution_handler.execute_order">>]
    /\ UNCHANGED <<status, cur_time, sentiment_handler, sentiment_date,
                   tickers_invested, ticker_weights, positions, cur_cash, equity,
                   prices, feed, commission, continue_backtest, statistics, sized>>

\* event.type == FILL: portfolio_handler.on_fill
DispatchFill ==
    /\ UNCHANGED session_vars
    /\ Popped("on_fill")
    /\ LET e == Get(events_queue)
       IN  /\ events_queue' = Rest(events_queue)
           /\ positions' = transact_position(positions, e)
           /\ cur_cash' = transact_cash(cur_cash, e)
           /\ equity' = update_portfolio(cur_cash', positions', prices)
           /\ last' = [kind |-> "dispatch", event |-> e,
                       calls |-> <<"portfolio_handler.on_fill">>]
    /\ UNCHANGED <<status, cur_time, sentiment_handler, sentiment_date,
                   tickers_invested, ticker_weights, prices, feed, commission,
                   continue_backtest, statistics, sized>>

\* any other event.type: the raise leaves the loop
DispatchUnsupported ==
    /\ UNCHANGED session_vars
    /\ Popped("unsupported")
    /\ events_queue' = Rest(events_queue)
    /\ status' = "aborted"
    /\ last' = [kind |-> "dispatch", event |-> Get(events_queue), calls |-> <<>>]
    /\ UNCHANGED <<cur_time, sentiment_handler, sentiment_date, tickers_invested,
                   ticker_weights, positions, cur_cash, equity, prices, feed, commission,
                   continue_backtest, statistics, sized>>

Next ==
    \/ LoopExit
    \/ StreamBar
    \/ StreamOther
    \/ StreamEnd
    \/ DispatchMarket
    \/ DispatchSentiment
    \/ DispatchSignal
    \/ DispatchOrder
    \/ DispatchFill
    \/ DispatchUnsupported

Spec == Init /\ [][Next]_vars

\* the loop is a sequential program that keeps taking its next iteration
FairSpec == Spec /\ WF_vars(Next)

-----------------------------------------------------------------------------
(* The session from its construction on, backtest or live, with a wall    *)
(* clock and a feed that may deliver the bars of both tickers in one step. *)

LiveBars == 2
MaxClock == 2

\* a constructor that accepts a live session without a cutoff
ctor_raises_never(type, cutoff) == FALSE

\* if self.session_type == "live": if self.end_session_time is None: raise
ctor_raises(type, cutoff) == type = "live" /\ cutoff = NoTime

\* the arguments TradingSession is constructed with
SessionInit ==
    /\ status = "new"
    /\ events_queue = <<>>
    /\ cur_time = NoDate
    /\ sentiment_handler \in BOOLEAN
    /\ sentiment_date = NoDate
    /\ tickers_invested = create_invested_list
    /\ ticker_weights = example_weights
    /\ positions = [t \in {} |-> 0]
    /\ cur_cash = parse(initial_equity)
    /\ equity = parse(initial_equity)
    /\ prices = [t \in {} |-> 0]
    /\ feed \in [type : {"BAR", "TICK"}, day : {1}, left : {LiveBars}, batch : {0}]
    /\ commission = Commission
    /\ continue_backtest = TRUE
    /\ statistics = [time |-> NoDate, equity |-> 0]
    /\ last = [kind |-> "init", event |-> NoEvent, calls |-> <<>>]
    /\ sized = [err |-> FALSE, order |-> NoEvent]
    /\ session_type \in {"backtest", "live"}
    /\ end_session_time \in {NoTime} \cup (1..MaxClock)
    /\ now = 0

\* TradingSession.__init__ runs to its end or raises
Construct ==
    /\ status = "new"
    /\ status' = IF ctor_raises(session_type, end_session_time)
                 THEN "ctor_error" ELSE "running"
    /\ UNCHANGED <<events_queue, cur_time, sentiment_handler, sentiment_date,
                   tickers_invested, ticker_weights, positions, cur_cash, equity,
                   prices, feed, commission, continue_backtest, statistics, last,
                   sized, session_vars>>

\* the wall clock, which only a live session reads, moves on
Tick ==
    /\ status = "running"
    /\ session_type = "live"
    /\ now < MaxClock
    /\ now' = now + 1
    /\ UNCHANGED <<status, events_queue, cur_time, sentiment_handler,
                   sentiment_date, tickers_invested, ticker_weights, positions,
                   cur_cash, equity, prices, feed, commission, continue_backtest,
                   statistics, last, sized, session_type, end_session_time>>

\* price_handler.stream_next() on a feed whose next row holds a bar of each
\* ticker: both are enqueued, with the one timestamp of the row
StreamPair ==
    /\ Iterating /\ QueueEmpty
    /\ feed.left > 0
    /\ \E p \in Prices, d \in {feed.day, feed.day + 1} :
         /\ d <= Len(Calendar)
         /\ feed' = [feed EXCEPT !.day = d, !.left = @ - 1, !.batch = @ + 2]
         /\ events_queue' =
              Put(Put(events_queue,
                      MarketEvent(feed.type, "SPY", Calendar[d], parse(p),
                                  feed.batch + 1)),
                  MarketEvent(feed.type, "AGG", Calendar[d], parse(p),
                              feed.batch + 2))
         /\ prices' = [x \in Tickers |-> parse(p)]
    /\ last' = [kind |-> "feed", event |-> NoEvent,
                calls |-> <<"price_handler.stream_next">>]
    /\ UNCHANGED <<status, cur_time, sentiment_handler, sentiment_date,
                   tickers_invested, ticker_weights, positions, cur_cash, equity,
                   commission, continue_backtest, statistics, sized, session_vars>>

SessionNext ==
    \/ Construct
    \/ Tick
    \/ StreamPair
    \/ Next

SessionSpec == SessionInit /\ [][SessionNext]_vars


-----------------------------------------------------------------------------
(* The position sizer on its own: size_order applied to portfolios drawn   *)
(* from bounded sets, and the sized order applied to the position as the   *)
(* fill execution returns for it.                                          *)

SizerCash == {0, 1, 9999, 25050, parse(initial_equity)}
SizerPrices == {1, 33, 100, 10000}
SizerWeights == {0, 1, 4, 6, 10}
SizerPositions ==
    {[t \in {} |-> 0]} \cup {[t \in {"SPY"} |-> q] : q \in (0 - MaxQty)..MaxQty}

SizerInit ==
    /\ status = "sizer"
    /\ events_queue = <<>>
    /\ cur_time = NoDate
    /\ sentiment_handler = FALSE
    /\ sentiment_date = NoDate
    /\ tickers_invested = create_invested_list
    /\ ticker_weights \in {[t \in D |-> IF t = "SPY" THEN w ELSE 4] :
                             w \in SizerWeights, D \in {Tickers, {"SPY"}}}
    /\ positions \in SizerPositions
    /\ cur_cash \in SizerCash
    /\ prices \in {[t \in D |-> IF t = "SPY" THEN p ELSE 5000] :
                     p \in SizerPrices, D \in {Tickers, {"SPY"}}}
    /\ equity = update_portfolio(cur_cash, positions, prices)
    /\ feed = [type |-> "BAR", day |-> 1, left |-> 0, batch |-> 0]
    /\ commission = 0
    /\ continue_backtest = TRUE
    /\ statistics = [time |-> NoDate, equity |-> 0]
    /\ last = [kind |-> "init", event |-> NoEvent, calls |-> <<>>]
    /\ sized = [err |-> FALSE, order |-> NoEvent]
    /\ session_type = "backtest"
    /\ end_session_time = NoTime
    /\ now = 0

\* position_sizer.size_order(portfolio, initial_order)
SizeOrder ==
    /\ UNCHANGED session_vars
    /\ status = "sizer"
    /\ last.kind = "init"
    /\ \E t \in Tickers, a \in {"EXIT", "BOT", "SLD"} :
         LET o == OrderEvent(t, a, 0, 0)
         IN  /\ sized' = size_order(positions, equity, prices, ticker_weights, o)
             /\ last' = [kind |-> "size", event |-> o,
                         calls |-> <<"position_sizer.size_order">>]
    /\ UNCHANGED <<status, events_queue, cur_time, sentiment_handler,
                   sentiment_date, tickers_invested, ticker_weights, positions,
                   cur_cash, equity, prices, feed, commission, continue_backtest,
                   statistics>>

\* the sized order is executed in full and its fill applied to the portfolio
ApplyFill ==
    /\ UNCHANGED session_vars
    /\ status = "sizer"
    /\ last.kind = "size"
    /\ ~sized.err
    /\ LET o == sized.order
           f == FillEvent(o.ticker, o.action, o.quantity, prices[o.ticker], 0, 0)
       IN  /\ positions' = transact_position(positions, f)
           /\ cur_cash' = transact_cash(cur_cash, f)
           /\ equity' = update_portfolio(cur_cash', positions', prices)
    /\ last' = [last EXCEPT !.kind = "fill", !.calls = <<"portfolio_handler.on_fill">>]
    /\ UNCHANGED <<status, events_queue, cur_time, sentiment_handler,
                   sentiment_date, tickers_invested, ticker_weights, prices, feed,
                   commission, continue_backtest, statistics, sized>>

SizerNext == SizeOrder \/ ApplyFill

SizerSpec == SizerInit /\ [][SizerNext]_vars


-----------------------------------------------------------------------------
(* Properties of the session loop *)

IsMarket(e) == e.type \in {"BAR", "TICK"}
NumType(q, ty) == Len(SelectSeq(q, LAMBDA e : e.type = ty))
\* the events an iteration appended behind what was left of the queue
Appended == SubSeq(events_queue', Len(events_queue), Len(events_queue'))

\* C1: every popped event goes to the one handler of its type: SIGNAL only
\* to portfolio_handler.on_signal, ORDER only to
\* execution_handler.execute_order, FILL only to portfolio_handler.on_fill,
\* SENTIMENT only to strategy.calculate_signals; and only the handler of a
\* type has that handler's effect (the portfolio changes only on a FILL, a
\* FILL is enqueued only for an ORDER, an ORDER only for a SIGNAL).
C1_DispatchByType ==
    [][last'.kind = "dispatch" =>
         LET ty == last'.event.type
             c  == last'.calls
         IN  /\ ~QueueEmpty /\ last'.event = Get(events_queue)
             /\ (ty = "SIGNAL" <=> c = <<"portfolio_handler.on_signal">>)
             /\ (ty = "ORDER" <=> c = <<"execution_handler.execute_order">>)
             /\ (ty = "FILL" <=> c = <<"portfolio_handler.on_fill">>)
             /\ (ty = "SENTIMENT" <=> c = <<"strategy.calculate_signals">>)
             /\ (positions' # positions \/ cur_cash' # cur_cash => ty = "FILL")
             /\ (NumType(Appended, "FILL") > 0 => ty = "ORDER")
             /\ (NumType(Appended, "ORDER") > 0 => ty = "SIGNAL")
             /\ (NumType(Appended, "SIGNAL") > 0 => IsMarket(last'.event))
    ]_vars

\* every one of the four kinds has been dispatched, and a fill applied
C1_Witness ==
    /\ last.kind = "dispatch" /\ last.event.type = "FILL"
    /\ last.calls = <<"portfolio_handler.on_fill">>
    /\ last.event.ticker \in DOMAIN positions
    /\ sentiment_handler /\ sentiment_date # NoDate

MarketCalls ==
    IF sentiment_handler
    THEN <<"cur_time", "sentiment_handler.stream_next", "strategy.calculate_signals",
           "portfolio_handler.update_portfolio_value", "statistics.update">>
    ELSE <<"cur_time", "strategy.calculate_signals",
           "portfolio_handler.update_portfolio_value", "statistics.update">>

\* C2: after the dispatch of a BAR or TICK event the steps were made once
\* each and in this order: time set to the event's time, sentiment feed (if
\* configured) advanced for that time, event forwarded to the strategy,
\* valuation recomputed, valuation recorded in the statistics.  So the
\* sentiment feed was given the event's time, a SENTIMENT event of the batch
\* precedes its SIGNALs in the queue, and the statistics hold the recomputed
\* valuation.
C2_MarketStepOrder ==
    (last.kind = "dispatch" /\ IsMarket(last.event)) =>
        /\ last.calls = MarketCalls
        /\ cur_time = last.event.time
        /\ (sentiment_handler => sentiment_date = last.event.time)
        /\ equity = update_portfolio(cur_cash, positions, prices)
        /\ statistics = [time |-> last.event.time, equity |-> equity]
        /\ \A i, j \in 1..Len(events_queue) :
             (/\ events_queue[i].type = "SIGNAL"
              /\ events_queue[j].type = "SENTIMENT"
              /\ events_queue[i].batch = events_queue[j].batch) => j < i

\* a bar dispatched with a sentiment handler, a position held and a price
\* that moved: the recorded valuation differs from the one before the bar
C2_Witness ==
    /\ last.kind = "dispatch" /\ IsMarket(last.event)
    /\ sentiment_handler
    /\ NumType(events_queue, "SENTIMENT") = 1
    /\ NumType(events_queue, "SIGNAL") = 2
    /\ \E t \in DOMAIN positions : positions[t] > 0
    /\ statistics.equity < parse(initial_equity) - 2 * Commission

\* C3: an iteration either pops and dispatches one event or, the queue being
\* empty, advances the price feed by one step; the feed is never advanced
\* while the queue holds an event, and a dispatch leaves the feed alone.
C3_PopOrFeed ==
    [][/\ last'.kind \in {"dispatch", "feed", "exit"}
       /\ (feed' # feed \/ prices' # prices \/ continue_backtest' # continue_backtest)
            => (QueueEmpty /\ last'.kind = "feed")
       /\ last'.kind = "feed" =>
            /\ Len(events_queue) = 0
            /\ last'.calls = <<"price_handler.stream_next">>
            /\ \/ feed'.batch = feed.batch + 1 /\ Len(events_queue') >= 1
               \/ feed' = feed /\ ~continue_backtest' /\ events_queue' = events_queue
            /\ UNCHANGED <<cur_time, tickers_invested, positions, cur_cash, equity,
                           statistics>>
       /\ last'.kind = "dispatch" =>
            /\ Len(events_queue) > 0
            /\ last'.event = events_queue[1]
            /\ \A i \in 2..Len(events_queue) : events_queue'[i - 1] = events_queue[i]
            /\ UNCHANGED <<feed, prices, continue_backtest>>
    ]_vars

\* the feed was advanced on an empty queue after events had been dispatched
C3_Witness ==
    /\ last.kind = "feed"
    /\ feed.batch = 2
    /\ Len(events_queue) = 1
    /\ \E t \in DOMAIN positions : positions[t] > 0

\* C4: a FILL is applied only after the SIGNALs and ORDERs of its batch have
\* been processed: no SIGNAL or ORDER of a batch is behind a FILL of that
\* batch in the queue, so none is left when the FILL is popped.
C4_FillAfterSignalAndOrder ==
    \A i, j \in 1..Len(events_queue) :
        (/\ i < j
         /\ events_queue[i].type = "FILL"
         /\ events_queue[i].batch = events_queue[j].batch)
        => events_queue[j].type \notin {"SIGNAL", "ORDER"}

\* the liquidation fill of a two-signal batch has been applied while the
\* fill of the batch's new allocation waits
C4_Witness ==
    /\ last.kind = "dispatch" /\ last.event.type = "FILL"
    /\ last.event.action = "SLD"
    /\ positions[last.event.ticker] = 0
    /\ Len(events_queue) = 1
    /\ events_queue[1].type = "FILL"
    /\ events_queue[1].batch = last.event.batch


-----------------------------------------------------------------------------
(* Properties of the position sizer *)

\* C5: for any signed position quantity q, the order size_order returns for
\* an EXIT order nets the position to exactly 0 when it is applied as a fill.
C5_LiquidationNetsToZero ==
    (last.kind = "fill" /\ last.event.action = "EXIT")
        => positions[last.event.ticker] = 0

\* C6 as stated: the quantity of a non-EXIT order is floor(w*E/p), never
\* negative for a positive weight, and quantity*p does not exceed w*E,
\* whatever the equity E.
C6_RebalanceFloorAnyEquity ==
    (last.kind = "size" /\ last.event.action # "EXIT" /\ ~sized.err) =>
        LET w == ticker_weights[last.event.ticker]
            p == prices[last.event.ticker]
            q == sized.order.quantity
        IN  /\ sized.order.action = last.event.action
            /\ q * (WeightDen * p) <= w * equity
            /\ w * equity < (q + 1) * (WeightDen * p)
            /\ (w > 0 => q >= 0)

\* C6: the quantity of a non-EXIT order is floor(w*E/p) (the integer q with
\* q*p <= w*E < (q+1)*p), so quantity*p never exceeds w*E; it is never
\* negative for a positive weight when the equity E is not negative.
C6_RebalanceFloor ==
    (last.kind = "size" /\ last.event.action # "EXIT" /\ ~sized.err) =>
        LET w == ticker_weights[last.event.ticker]
            p == prices[last.event.ticker]
            q == sized.order.quantity
        IN  /\ sized.order.action = last.event.action
            /\ q * (WeightDen * p) <= w * equity
            /\ w * equity < (q + 1) * (WeightDen * p)
            /\ ((w > 0 /\ equity >= 0) => q >= 0)

\* an allocation whose dollar target is no whole number of shares
C6_Witness ==
    /\ last.kind = "size" /\ last.event.action = "BOT" /\ ~sized.err
    /\ sized.order.quantity > 0
    /\ sized.order.quantity * (WeightDen * prices[last.event.ticker])
         < ticker_weights[last.event.ticker] * equity

-----------------------------------------------------------------------------
(* Properties of the monthly strategy *)

\* the days of Calendar that are the last day of their month
MonthEnds == { <<2007, 2, 28>>, <<2008, 2, 29>>, <<2008, 3, 31>> }

\* the SIGNALs an iteration enqueued, as <<ticker, action>>
NewSignals ==
    LET new == SelectSeq(Appended, LAMBDA e : e.type = "SIGNAL")
    IN  [i \in 1..Len(new) |-> <<new[i].ticker, new[i].action>>]

\* C7: the invested flag is false for every ticker at construction and is
\* monotonic: once true for a ticker it is never false again, whatever
\* happens later (a liquidation of the ticker included).
C7_InvestedMonotonic ==
    /\ \A t \in Tickers : tickers_invested[t] = FALSE
    /\ [][\A t \in Tickers : tickers_invested[t] => tickers_invested'[t]]_vars

\* a ticker whose position was liquidated to zero is still invested
C7_Witness ==
    /\ last.kind = "dispatch" /\ last.event.type = "FILL"
    /\ last.event.action = "SLD"
    /\ positions[last.event.ticker] = 0
    /\ tickers_invested[last.event.ticker]

\* C8: on a BAR or TICK event of the last day of a month the strategy
\* enqueues, for the event's ticker, one BOT signal when the ticker is not
\* yet invested, and an EXIT signal followed by a BOT signal when it is.
C8_MonthEndSignals ==
    [][(/\ last'.kind = "dispatch"
        /\ IsMarket(last'.event)
        /\ last'.event.time \in MonthEnds) =>
         LET t == last'.event.ticker
         IN  NewSignals = IF tickers_invested[t]
                          THEN << <<t, "EXIT">>, <<t, "BOT">> >>
                          ELSE << <<t, "BOT">> >>
    ]_vars

\* the bar of 29 February 2008 was dispatched for an invested ticker and the
\* EXIT and BOT signals are in the queue, in that order
C8_Witness ==
    /\ last.kind = "dispatch" /\ IsMarket(last.event)
    /\ last.event.time = <<2008, 2, 29>>
    /\ Len(events_queue) >= 2
    /\ LET n == Len(events_queue)
       IN  /\ events_queue[n - 1].type = "SIGNAL"
           /\ events_queue[n - 1].action = "EXIT"
           /\ events_queue[n].type = "SIGNAL"
           /\ events_queue[n].action = "BOT"
           /\ events_queue[n].ticker = last.event.ticker
           /\ events_queue[n - 1].ticker = last.event.ticker

\* C9: a BAR or TICK event that is not of the last day of its month, and an
\* event that is no BAR or TICK, leaves the strategy without effect: no
\* signal is enqueued and no invested flag changes, however many arrive.
C9_NoOpOffMonthEnd ==
    [][(/\ last'.kind = "dispatch"
        /\ \/ last'.event.type = "SENTIMENT"
           \/ IsMarket(last'.event) /\ last'.event.time \notin MonthEnds) =>
         /\ "strategy.calculate_signals" \in {last'.calls[i] : i \in 1..Len(last'.calls)}
         /\ tickers_invested' = tickers_invested
         /\ NewSignals = <<>>
    ]_vars

\* three bars of 28 February 2008, not a month end, have been dispatched and
\* nothing is invested or queued
C9_Witness ==
    /\ last.kind = "dispatch" /\ IsMarket(last.event)
    /\ last.event.time = <<2008, 2, 28>>
    /\ feed.batch = 3
    /\ \A t \in Tickers : ~tickers_invested[t]
    /\ NumType(events_queue, "SIGNAL") = 0

-----------------------------------------------------------------------------
(* The example backtest: SPY 0.6, AGG 0.4, equity 500000 *)

ExamplePrice == [t \in Tickers |-> IF t = "SPY" THEN 100 ELSE 50]
ExampleQty == [t \in Tickers |-> IF t = "SPY" THEN 3000 ELSE 4000]

\* the session is at the first month end, 28 February 2007, with at most one
\* bar per ticker delivered, SPY at 100 and AGG at 50
FirstMonthEnd ==
    /\ feed.day = 1
    /\ cur_time \in {NoDate, Calendar[1]}
    /\ feed.batch <= 2
    /\ Cardinality(DOMAIN prices) = feed.batch
    /\ \A t \in DOMAIN prices : prices[t] = parse(ExamplePrice[t])

-----------------------------------------------------------------------------
(* Errors of the position sizer *)

\* C14: sizing a non-EXIT order fails whenever the order's ticker has no
\* entry in the weight table or no current price; the order then keeps its
\* action and quantity and no sized order is returned.
C14_SizingFailsWithoutWeightOrPrice ==
    (/\ last.kind = "size"
     /\ last.event.action # "EXIT"
     /\ \/ last.event.ticker \notin DOMAIN ticker_weights
        \/ last.event.ticker \notin DOMAIN prices)
    => /\ sized.err
       /\ sized.order = last.event
       /\ ~ENABLED ApplyFill

\* an allocation for AGG, which has a price and no weight, has failed
C14_Witness ==
    /\ last.kind = "size" /\ last.event.action = "BOT"
    /\ last.event.ticker = "AGG"
    /\ "AGG" \notin DOMAIN ticker_weights
    /\ "AGG" \in DOMAIN prices
    /\ sized.err


-----------------------------------------------------------------------------
(* The second month end, errors and frame of the session loop *)

\* C11: at a second month end, both tickers invested and prices as before,
\* the EXIT signal of a ticker yields one liquidation order, whose quantity
\* is the position recorded for the ticker, and that order is in the queue
\* before the ticker's new allocation is sized.
C11_SecondMonthEndExit ==
    (/\ last.kind = "dispatch"
     /\ last.event.type = "SIGNAL" /\ last.event.action = "EXIT"
     /\ \A t \in Tickers : tickers_invested[t]
     /\ \A t \in Tickers : t \in DOMAIN prices /\ prices[t] = parse(ExamplePrice[t]))
    => LET t == last.event.ticker
           n == Len(events_queue)
       IN  /\ status = "running"
           /\ t \in DOMAIN positions
           /\ n = 2
           /\ events_queue[1] = SignalEvent(t, "BOT", last.event.batch)
           /\ events_queue[2].type = "ORDER"
           /\ events_queue[2].ticker = t
           /\ events_queue[2].quantity = positions[t]

KnownTypes == {"BAR", "TICK", "SENTIMENT", "SIGNAL", "ORDER", "FILL"}

\* C13: an event of no known type is fatal: the loop is left with an error
\* at that event, no collaborator is called for it, nothing but the queue
\* and the status changes, and no step follows (the events behind it stay
\* in the queue).
C13_UnsupportedIsFatal ==
    /\ [][(last'.kind = "dispatch" /\ last'.event.type \notin KnownTypes) =>
            /\ status' = "aborted"
            /\ last'.calls = <<>>
            /\ events_queue' = Rest(events_queue)
            /\ UNCHANGED <<cur_time, sentiment_date, tickers_invested, positions,
                           cur_cash, equity, prices, feed, statistics>>
         ]_vars
    /\ [][status # "aborted"]_vars

\* the loop was left at an unsupported event with a market event behind it
C13_Witness ==
    /\ status = "aborted"
    /\ last.kind = "dispatch" /\ last.event.type = "OTHER"
    /\ Len(events_queue) = 1
    /\ IsMarket(events_queue[1])
    /\ \E t \in DOMAIN positions : positions[t] > 0

\* C18: the dispatch of a SENTIMENT event calls the strategy and nothing
\* else: the current time, the portfolio and its valuation and the
\* statistics stay as they are and the sentiment feed is not advanced.
C18_SentimentFrame ==
    [][(last'.kind = "dispatch" /\ last'.event.type = "SENTIMENT") =>
         /\ last'.calls = <<"strategy.calculate_signals">>
         /\ events_queue' = Rest(events_queue)
         /\ UNCHANGED <<cur_time, sentiment_date, positions, cur_cash, equity,
                        statistics, status, tickers_invested>>
    ]_vars

\* a SENTIMENT event was dispatched while a position is held and the BOT
\* signal of its batch waits
C18_Witness ==
    /\ last.kind = "dispatch" /\ last.event.type = "SENTIMENT"
    /\ statistics.time = cur_time
    /\ \E t \in DOMAIN positions : positions[t] > 0
    /\ NumType(events_queue, "SIGNAL") >= 1

\* C19: a new-allocation order is sized on the portfolio's equity as it is
\* when the order is sized: its quantity q is floor(w*E/p) for that equity
\* E, also when the equity has changed since another ticker's order was
\* sized.
C19_SizedOnCurrentEquity ==
    [][(/\ last'.kind = "dispatch"
        /\ last'.event.type = "SIGNAL" /\ last'.event.action # "EXIT"
        /\ status' = "running") =>
         /\ Len(Appended) = 1
         /\ LET o == Appended[1]
                w == ticker_weights[o.ticker]
                p == prices[o.ticker]
            IN  /\ o.type = "ORDER" /\ o.ticker = last'.event.ticker
                /\ o.quantity * (WeightDen * p) <= w * equity
                /\ w * equity < (o.quantity + 1) * (WeightDen * p)
    ]_vars

\* at the first month end SPY was allocated 3000 shares and the commission
\* on its fill has lowered the equity: the AGG order is for 3999 shares
C19_Witness ==
    /\ FirstMonthEnd
    /\ "SPY" \in DOMAIN positions /\ positions["SPY"] = 3000
    /\ equity = parse(initial_equity) - Commission
    /\ Len(events_queue) = 1
    /\ events_queue[1].type = "ORDER"
    /\ events_queue[1].ticker = "AGG"
    /\ events_queue[1].quantity = 3999

\* C20: whenever an EXIT reaches the position sizer the portfolio holds a
\* position record for its ticker, so the lookup of the quantity does not
\* fail.
C20_ExitFindsPosition ==
    (/\ status = "running" /\ ~QueueEmpty
     /\ Get(events_queue).type = "SIGNAL"
     /\ Get(events_queue).action = "EXIT")
    => Get(events_queue).ticker \in DOMAIN positions


-----------------------------------------------------------------------------
(* Termination, construction and the clock of the session *)

\* C12: a backtest loop terminates once the feed has no data left; when the
\* loop condition sees the feed exhausted the only step is the return, with
\* no pop, dispatch or feed advance, and nothing follows the return. Every
\* other step is a whole iteration that began with the condition true.
C12_BacktestTerminates ==
    /\ [](status = "running" /\ ~continue_backtest =>
            /\ ENABLED LoopExit
            /\ ~ENABLED (StreamBar \/ StreamOther \/ StreamEnd)
            /\ \A h \in {"market", "sentiment", "on_signal", "execute_order",
                         "on_fill", "unsupported"} : ~Popped(h))
    /\ [][~continue_backtest =>
            /\ last'.kind = "exit" /\ status' = "done"
            /\ UNCHANGED <<events_queue, feed, cur_time, positions, cur_cash,
                           equity, statistics>>
         ]_vars
    /\ [][last'.kind # "exit" => continue_backtest]_vars
    /\ [][status # "done"]_vars
    /\ (feed.left = 0) ~> (status # "running")
    /\ ~continue_backtest ~> (status = "done")

\* the loop has returned after the feed's last bar was dispatched with its
\* whole chain of signals, orders and fills
C12_Witness ==
    /\ status = "done" /\ last.kind = "exit"
    /\ ~continue_backtest /\ feed.left = 0
    /\ \E t \in DOMAIN positions : positions[t] > 0

\* C15: a live session without end_session_time fails in its constructor
\* and never runs; construction fails in no other case, so a backtest
\* without end_session_time runs.
C15_LiveNeedsCutoff ==
    /\ (session_type = "live" /\ end_session_time = NoTime) =>
          /\ status \in {"new", "ctor_error"}
          /\ last.kind = "init"
          /\ events_queue = <<>>
    /\ status = "ctor_error" =>
          (session_type = "live" /\ end_session_time = NoTime)
    /\ (status # "new" /\ ~(session_type = "live" /\ end_session_time = NoTime)) =>
          status \in {"running", "done", "aborted"}

\* a backtest constructed without end_session_time has dispatched a fill
C15_Witness ==
    /\ session_type = "backtest" /\ end_session_time = NoTime
    /\ status = "running"
    /\ last.kind = "dispatch" /\ last.event.type = "FILL"

\* a live session without end_session_time has failed in its constructor
C15_WitnessLive ==
    /\ session_type = "live" /\ end_session_time = NoTime
    /\ status = "ctor_error"

\* C16: whenever _run_session has returned, the events queue is empty.
C16_ReturnsWithEmptyQueue ==
    status = "done" => events_queue = <<>>

\* C17: the current time changes only when no SIGNAL, ORDER or FILL waits
\* in the queue, that is, every event derived from an earlier market event
\* has been dispatched before the time moves.
C17_TimeWaitsForDerived ==
    [][cur_time' # cur_time =>
         /\ IsMarket(last'.event)
         /\ \A i \in 1..Len(events_queue) :
              events_queue[i].type \notin {"SIGNAL", "ORDER", "FILL"}
    ]_vars

\* the second bar of a month-end row was dispatched while the signal of the
\* first bar waits: the time was set again and did not change; the time
\* had changed before, with no derived event in the queue
C17_Witness ==
    /\ last.kind = "dispatch" /\ IsMarket(last.event)
    /\ cur_time = last.event.time
    /\ statistics.time = cur_time
    /\ \E i \in 1..Len(events_queue) :
         /\ events_queue[i].type = "SIGNAL"
         /\ events_queue[i].batch < last.event.batch

====
